---- MODULE Spec2Model ----
\* The hashd-params benchmark job of resctl-bench
\* (src/resctl-bench/src/bench/hashd_params.rs): HashdParamsBench::parse
\* builds a HashdParamsJob from a property map, HashdParamsJob::run starts
\* the benchmark through the run context, waits for the sequence rendezvous
\* and reads the resulting knobs from the agent's bench file.
EXTENDS Integers, Sequences, FiniteSets, TLC

\* ------------------------------------------------------------------ bounds
\* Largest number of entries of the property map given to parse.
MaxProps == 2
\* Largest number of poll ticks one wait_cond call makes.
MaxPolls == 3
\* Largest completed-sequence number the agent's bench file starts with.
MaxInitSeq == 1
\* Largest number of times run is called on the parsed job.
MaxRuns == 2

\* ------------------------------------------------------------- text values
\* A string is a sequence of one-character strings; a parsed unsigned
\* integer is its canonical decimal digit sequence, so that the 32 and 64
\* bit limits are exact.
DigitChars == <<"0", "1", "2", "3", "4", "5", "6", "7", "8", "9">>

IsDigit(c) == \E i \in 1..Len(DigitChars) : DigitChars[i] = c

DigitVal(c) == (CHOOSE i \in 1..Len(DigitChars) : DigitChars[i] = c) - 1

\* u32::MAX = 4294967295
U32MaxDigits == <<"4", "2", "9", "4", "9", "6", "7", "2", "9", "5">>

\* usize::MAX = u64::MAX = 18446744073709551615 (64-bit target)
U64MaxDigits == <<"1", "8", "4", "4", "6", "7", "4", "4", "0", "7",
                  "3", "7", "0", "9", "5", "5", "1", "6", "1", "5">>

RECURSIVE StripZeros(_)
StripZeros(ds) ==
    IF Len(ds) > 1 /\ ds[1] = "0" THEN StripZeros(Tail(ds)) ELSE ds

RECURSIVE LexGreater(_, _)
\* a > b for digit sequences of the same length
LexGreater(a, b) ==
    IF Len(a) = 0 THEN FALSE
    ELSE IF DigitVal(a[1]) # DigitVal(b[1]) THEN DigitVal(a[1]) > DigitVal(b[1])
    ELSE LexGreater(Tail(a), Tail(b))

\* a > b for canonical digit sequences
NumGreater(a, b) ==
    \/ Len(a) > Len(b)
    \/ Len(a) = Len(b) /\ LexGreater(a, b)

RECURSIVE ParseDigits(_, _, _)
\* The digit loop of <unsigned>::from_str: left to right, a character that is
\* no digit is InvalidDigit, an accumulator beyond the type's maximum is
\* PosOverflow.
ParseDigits(ds, acc, max) ==
    IF Len(ds) = 0 THEN [ok |-> TRUE, val |-> acc]
    ELSE IF ~IsDigit(ds[1]) THEN [ok |-> FALSE, cause |-> "InvalidDigit"]
    ELSE LET next == StripZeros(acc \o <<ds[1]>>)
         IN IF NumGreater(next, max)
            THEN [ok |-> FALSE, cause |-> "PosOverflow"]
            ELSE ParseDigits(Tail(ds), next, max)

\* v.parse::<usize>() / v.parse::<u64>() / v.parse::<u32>(): the empty string
\* is Empty, a lone sign is InvalidDigit, a leading "+" is accepted, a leading
\* "-" is no digit of an unsigned type.
ParseUint(v, max) ==
    IF Len(v) = 0 THEN [ok |-> FALSE, cause |-> "Empty"]
    ELSE IF Len(v) = 1 /\ v[1] \in {"+", "-"}
         THEN [ok |-> FALSE, cause |-> "InvalidDigit"]
    ELSE IF v[1] = "+" THEN ParseDigits(Tail(v), <<"0">>, max)
    ELSE ParseDigits(v, <<"0">>, max)

\* v.parse::<bool>(): exactly "true" or "false"
ParseBool(v) ==
    IF v = <<"t", "r", "u", "e">> THEN [ok |-> TRUE, val |-> TRUE]
    ELSE IF v = <<"f", "a", "l", "s", "e">> THEN [ok |-> TRUE, val |-> FALSE]
    ELSE [ok |-> FALSE, cause |-> "ParseBoolError"]

\* ------------------------------------------------------------ property map
\* spec.props[0] is a map from key to value, iterated in ascending key order.
\* KeyOrder lists the keys the model draws from in that order: the seven keys
\* parse matches and two it does not ("Passive" sorts before all of them,
\* "foo" between "fake-cpu-load" and "hash-size").
KeyOrder == <<"Passive", "balloon", "chunk-pages", "fake-cpu-load", "foo",
              "hash-size", "log-bps", "passive", "rps-max">>

Keys == {KeyOrder[i] : i \in 1..Len(KeyOrder)}

S_true == <<"t", "r", "u", "e">>
S_false == <<"f", "a", "l", "s", "e">>
S_empty == <<>>

\* Values drawn for a boolean key.
BoolTexts == {S_empty, S_true, S_false, <<"T", "r", "u", "e">>, <<"1">>}

\* Values drawn for a numeric key: 7, +7, 007, u32::MAX, u32::MAX + 1,
\* u64::MAX + 1, and the ill-formed "", "-1", "7x", "+".
NumTexts ==
    { <<"7">>, <<"+", "7">>, <<"0", "0", "7">>,
      U32MaxDigits,
      <<"4", "2", "9", "4", "9", "6", "7", "2", "9", "6">>,
      <<"1", "8", "4", "4", "6", "7", "4", "4", "0", "7",
        "3", "7", "0", "9", "5", "5", "1", "6", "1", "6">>,
      S_empty, <<"-", "1">>, <<"7", "x">>, <<"+">> }

TextsOf(k) ==
    IF k \in {"passive", "fake-cpu-load"} THEN BoolTexts
    ELSE IF k \in {"Passive", "foo"} THEN {S_empty, <<"7">>}
    ELSE NumTexts

\* Every property map with at most n entries.
WellTyped(m) == \A k \in DOMAIN m : m[k] \in TextsOf(k)

PropMaps(n) ==
    UNION { {m \in [D -> UNION {TextsOf(k) : k \in D}] : WellTyped(m)} :
            D \in {E \in SUBSET Keys : Cardinality(E) <= n} }

\* The keys of map m in iteration order.
RECURSIVE KeysFrom(_, _)
KeysFrom(m, i) ==
    IF i > Len(KeyOrder) THEN <<>>
    ELSE IF KeyOrder[i] \in DOMAIN m
         THEN <<KeyOrder[i]>> \o KeysFrom(m, i + 1)
         ELSE KeysFrom(m, i + 1)

IterKeys(m) == KeysFrom(m, 1)

\* ---------------------------------------------------------- HashdParamsJob
\* Option<T>: None, or the value itself.
None == <<"None">>

\* rd_agent_intf::Cmd::default(): values set outside this file.
DflBalloonSize == <<"dfl_cmd.bench_hashd_balloon_size">>
DflLogBps == <<"dfl_cmd.hashd[0].log_bps">>

\* impl Default for HashdParamsJob
DefaultJob ==
    [ passive |-> FALSE,
      balloon_size |-> DflBalloonSize,
      log_bps |-> DflLogBps,
      fake_cpu_load |-> FALSE,
      hash_size |-> None,
      chunk_pages |-> None,
      rps_max |-> None ]

\* The state of the job variable while no job exists.
NoJob == [none |-> TRUE]

NoErr == [kind |-> "none", key |-> "", cause |-> ""]

\* bail!("unknown property key {:?}", k)
UnknownKeyErr(k) == [kind |-> "UnknownProperty", key |-> k, cause |-> ""]

\* `?` on a ParseIntError / ParseBoolError: the error converted as it is; it
\* holds the cause and nothing of the key.
IntErr(r) == [kind |-> "ParseIntError", key |-> "", cause |-> r.cause]
BoolErr(r) == [kind |-> "ParseBoolError", key |-> "", cause |-> r.cause]

Assigned(j) == [ok |-> TRUE, job |-> j, err |-> NoErr]
Failed(e) == [ok |-> FALSE, job |-> NoJob, err |-> e]

\* Flag without the test of the length: an empty value is parsed as a bool.
FlagNoEmpty(v) == ParseBool(v)

\* v.len() == 0 || v.parse::<bool>()?
Flag(v) ==
    IF Len(v) = 0 THEN [ok |-> TRUE, val |-> TRUE] ELSE ParseBool(v)

SetNum(j, field, r) ==
    IF r.ok THEN Assigned([j EXCEPT ![field] = r.val]) ELSE Failed(IntErr(r))

SetFlag(j, field, r) ==
    IF r.ok THEN Assigned([j EXCEPT ![field] = r.val]) ELSE Failed(BoolErr(r))

\* MatchKey with the log-bps arm assigning balloon_size.
MatchKeyLogBpsSetsBalloon(j, k, v) ==
    IF k = "passive" THEN SetFlag(j, "passive", Flag(v))
    ELSE IF k = "balloon" THEN SetNum(j, "balloon_size", ParseUint(v, U64MaxDigits))
    ELSE IF k = "log-bps" THEN SetNum(j, "balloon_size", ParseUint(v, U64MaxDigits))
    ELSE IF k = "fake-cpu-load" THEN SetFlag(j, "fake_cpu_load", Flag(v))
    ELSE IF k = "hash-size" THEN SetNum(j, "hash_size", ParseUint(v, U64MaxDigits))
    ELSE IF k = "chunk-pages" THEN SetNum(j, "chunk_pages", ParseUint(v, U64MaxDigits))
    ELSE IF k = "rps-max" THEN SetNum(j, "rps_max", ParseUint(v, U32MaxDigits))
    ELSE Failed(UnknownKeyErr(k))

\* MatchKey without its last arm: a key that matches nothing is skipped.
MatchKeyIgnoreUnknown(j, k, v) ==
    IF k = "passive" THEN SetFlag(j, "passive", Flag(v))
    ELSE IF k = "balloon" THEN SetNum(j, "balloon_size", ParseUint(v, U64MaxDigits))
    ELSE IF k = "log-bps" THEN SetNum(j, "log_bps", ParseUint(v, U64MaxDigits))
    ELSE IF k = "fake-cpu-load" THEN SetFlag(j, "fake_cpu_load", Flag(v))
    ELSE IF k = "hash-size" THEN SetNum(j, "hash_size", ParseUint(v, U64MaxDigits))
    ELSE IF k = "chunk-pages" THEN SetNum(j, "chunk_pages", ParseUint(v, U64MaxDigits))
    ELSE IF k = "rps-max" THEN SetNum(j, "rps_max", ParseUint(v, U32MaxDigits))
    ELSE Assigned(j)

\* One iteration of the loop of parse: the match on the key.
MatchKey(j, k, v) ==
    IF k = "passive" THEN SetFlag(j, "passive", Flag(v))
    ELSE IF k = "balloon" THEN SetNum(j, "balloon_size", ParseUint(v, U64MaxDigits))
    ELSE IF k = "log-bps" THEN SetNum(j, "log_bps", ParseUint(v, U64MaxDigits))
    ELSE IF k = "fake-cpu-load" THEN SetFlag(j, "fake_cpu_load", Flag(v))
    ELSE IF k = "hash-size" THEN SetNum(j, "hash_size", ParseUint(v, U64MaxDigits))
    ELSE IF k = "chunk-pages" THEN SetNum(j, "chunk_pages", ParseUint(v, U64MaxDigits))
    ELSE IF k = "rps-max" THEN SetNum(j, "rps_max", ParseUint(v, U32MaxDigits))
    ELSE Failed(UnknownKeyErr(k))

\* for (k, v) in spec.props[0].iter() { ... }: the first failing entry ends
\* the loop and the job built so far is dropped.
RECURSIVE ParseLoop(_, _, _)
ParseLoop(m, ks, j) ==
    IF Len(ks) = 0 THEN Assigned(j)
    ELSE LET r == MatchKey(j, ks[1], m[ks[1]])
         IN IF r.ok THEN ParseLoop(m, Tail(ks), r.job) ELSE r

\* HashdParamsBench::parse
ParseProps(m) == ParseLoop(m, IterKeys(m), DefaultJob)

\* ------------------------------------------------------ the agent's files
\* HashdKnobs: what the agent's bench file holds in bench.hashd.
KnobsA ==
    [ hash_size |-> <<"1", "2", "3", "4", "5">>,
      rps_max |-> <<"5", "0", "0", "0">>,
      mem_size |-> <<"mem_size.a">>,
      mem_frac |-> <<"mem_frac.a">>,
      chunk_pages |-> <<"1", "6">> ]

KnobsB ==
    [ hash_size |-> <<"7">>,
      rps_max |-> <<"7">>,
      mem_size |-> <<"mem_size.b">>,
      mem_frac |-> <<"mem_frac.b">>,
      chunk_pages |-> <<"7">> ]

KnobSet == {KnobsA, KnobsB}

\* A reading of the report that is zero is shown as a dash.
Zero == <<"0">>

\* ROOT_SLICE, the key of the root slice in rep.usages.
ROOT_SLICE == "-.slice"

\* The percentiles the progress line shows of rep.iolat.map["read"].
Pcts == <<"50", "90", "99">>

\* rep.usages holding the root slice with the two throughput readings, and
\* holding nothing.
Usages(r, w) == [s \in {ROOT_SLICE} |-> [io_rbps |-> r, io_wbps |-> w]]
NoUsages == [s \in {} |-> [io_rbps |-> Zero, io_wbps |-> Zero]]

\* rep.iolat holding the read latencies of the percentiles in ps.
IoLat(ps, l) == [map |-> [t \in {"read"} |-> [q \in ps |-> l[q]]]]

LatLive == [q \in {"50", "90", "99"} |->
               IF q = "50" THEN <<"1">> ELSE IF q = "90" THEN <<"2">> ELSE <<"3">>]
LatZero == [q \in {"50", "90", "99"} |-> Zero]

\* The report snapshots a poll may read. With every entry in place: all
\* readings live, and read throughput live with the other readings zero.
\* With an entry missing: no usage of the root slice, and no 99th percentile
\* of the read latency.
ReportSet ==
    { [ phase |-> "BenchMemBisect", mem_probe_size |-> <<"1", "0", "2", "4">>,
        usages |-> Usages(<<"9">>, <<"8">>),
        iolat |-> IoLat({"50", "90", "99"}, LatLive) ],
      [ phase |-> "BenchMemUp", mem_probe_size |-> <<"5", "1", "2">>,
        usages |-> Usages(<<"9">>, Zero),
        iolat |-> IoLat({"50", "90", "99"}, LatZero) ],
      [ phase |-> "Prep", mem_probe_size |-> Zero,
        usages |-> NoUsages,
        iolat |-> IoLat({"50", "90", "99"}, LatZero) ],
      [ phase |-> "BenchMemUp", mem_probe_size |-> <<"5", "1", "2">>,
        usages |-> Usages(<<"9">>, <<"8">>),
        iolat |-> IoLat({"50", "90"}, LatLive) ] }

NoReq == [kind |-> "none"]
NoStatus == <<>>
NoRep == [none |-> TRUE]
NoResult == [none |-> TRUE]

\* ------------------------------------------------------------------- state
VARIABLES
    props,     \* spec.props[0], the property map given to parse
    reports,   \* the snapshots the agent's report file may hold in this process
    pc,        \* "parse", "ready", "waiting", "read", "done", "failed" or
               \* "panicked"
    job,       \* the HashdParamsJob parse built, or NoJob
    err,       \* the error parse or run returned, or NoErr
    effects,   \* the calls this run has made on the run context, in order
    cmd,       \* the agent's command file: bench_hashd_seq and the request
    bench,     \* the agent's bench file: hashd_seq and the hashd knobs
    sig,       \* what wait_cond has to observe: "none", "cancel", "failure"
    pollLog,   \* the sequence numbers each poll of this wait has compared
    status,    \* the progress line last set
    renders,   \* how many progress lines this wait has set
    lastRep,   \* the report the last poll of this wait has read, or NoRep
    startSeq,  \* bench.hashd_seq as it was when this run issued its start
    result,    \* the value run returned, or NoResult
    results    \* one record for every run that returned a value

vars == <<props, reports, pc, job, err, effects, cmd, bench, sig, pollLog, status,
          renders, lastRep, startSeq, result, results>>

\* --------------------------------------------------------------------- run
\* rd_hashd_intf::Args::with_mem_size(total_memory()), Params::default() and
\* RunCtx::BENCH_FAKE_CPU_RPS_MAX: values set outside this file.
DflArgsSize == <<"dfl_args.size">>
DflPreloadSize == <<"dfl_args.bench_preload_cache_size()">>
DflLogSize == <<"dfl_args.log_size">>
DflFileSizeMean == <<"dfl_params.file_size_mean">>
DflChunkPages == <<"dfl_params.chunk_pages">>
DflFileFrac == <<"dfl_params.file_frac">>
BenchFakeCpuRpsMax == <<"RunCtx::BENCH_FAKE_CPU_RPS_MAX">>

\* Option::unwrap_or
UnwrapOr(o, d) == IF o = None THEN d ELSE o

\* HostCalls with the relaxation requested after the commit and the agent start.
HostCallsRelaxLast(j) ==
    <<"set_commit_bench", "start_agent">>
        \o (IF j.passive THEN <<"set_passive_keep_crit_mem_prot">> ELSE <<>>)

\* if self.passive { rctx.set_passive_keep_crit_mem_prot(); }
\* rctx.set_commit_bench().start_agent();
HostCalls(j) ==
    (IF j.passive THEN <<"set_passive_keep_crit_mem_prot">> ELSE <<>>)
        \o <<"set_commit_bench", "start_agent">>

\* The HashdFakeCpuBench value built when fake_cpu_load is set.
FakeCpuBench(j) ==
    [ kind |-> "HashdFakeCpuBench",
      size |-> DflArgsSize,
      balloon_size |-> j.balloon_size,
      preload_size |-> DflPreloadSize,
      log_bps |-> j.log_bps,
      log_size |-> DflLogSize,
      hash_size |-> UnwrapOr(j.hash_size, DflFileSizeMean),
      chunk_pages |-> UnwrapOr(j.chunk_pages, DflChunkPages),
      rps_max |-> UnwrapOr(j.rps_max, BenchFakeCpuRpsMax),
      file_frac |-> DflFileFrac ]

\* format!("--bench-...={}", v): the option text followed by the digits of v
ExtraArg(name, o) == IF o = None THEN <<>> ELSE << <<name>> \o o >>

\* ExtraArgs with the chunk-pages argument pushed before the hash-size one.
ExtraArgsChunkFirst(j) ==
    ExtraArg("--bench-chunk-pages=", j.chunk_pages)
        \o ExtraArg("--bench-hash-size=", j.hash_size)
        \o ExtraArg("--bench-rps-max=", j.rps_max)

ExtraArgs(j) ==
    ExtraArg("--bench-hash-size=", j.hash_size)
        \o ExtraArg("--bench-chunk-pages=", j.chunk_pages)
        \o ExtraArg("--bench-rps-max=", j.rps_max)

\* The arguments of rctx.start_hashd_bench
HashdBenchReq(j) ==
    [ kind |-> "start_hashd_bench",
      balloon_size |-> j.balloon_size,
      log_bps |-> j.log_bps,
      extra_args |-> ExtraArgs(j) ]

\* StartReq taking the else branch whatever fake_cpu_load is.
StartReqAlwaysDelegated(j) == HashdBenchReq(j)

\* if self.fake_cpu_load { HashdFakeCpuBench {..}.start(rctx) }
\* else { rctx.start_hashd_bench(..) }
StartReq(j) ==
    IF j.fake_cpu_load THEN FakeCpuBench(j) ELSE HashdBenchReq(j)

\* Every call run makes on the run context before it waits, in order.
RunCalls(j) == HostCalls(j) \o <<StartReq(j).kind>>

\* Both branches of the if fall through to rctx.wait_cond.
AfterStart(j) == "waiting"

\* What a start does to the command file: it stores the request and asks
\* for the sequence number after the last completed one.
IssueStart(req, b) == [seq |-> b.hashd_seq + 1, req |-> req]

\* format_size / format_size_dashed / format_duration_dashed
FormatSize(v) == <<"size">> \o v
FormatSizeDashed(v) == IF v = Zero THEN <<"-">> ELSE <<"size">> \o v
FormatDurationDashed(v) == IF v = Zero THEN <<"-">> ELSE <<"dur">> \o v

\* The first key, in the order the arguments of format! are evaluated, that
\* the closure looks up in rep.usages, rep.iolat.map or
\* rep.iolat.map["read"] and that has no entry there; "" when every lookup
\* finds its entry.
MissingKey(rep) ==
    IF ROOT_SLICE \notin DOMAIN rep.usages THEN ROOT_SLICE
    ELSE IF "read" \notin DOMAIN rep.iolat.map THEN "read"
    ELSE IF \E i \in 1..Len(Pcts) : Pcts[i] \notin DOMAIN rep.iolat.map["read"]
         THEN Pcts[CHOOSE i \in 1..Len(Pcts) :
                       /\ Pcts[i] \notin DOMAIN rep.iolat.map["read"]
                       /\ \A k \in 1..(i - 1) : Pcts[k] \in DOMAIN rep.iolat.map["read"]]
    ELSE ""

\* rep.usages[ROOT_SLICE], rep.iolat.map["read"]["50"]: indexing a map by a
\* key it has no entry for panics.
IndexPanics(rep) == MissingKey(rep) # ""

\* The snapshots of ReportSet in which every lookup finds its entry.
CompleteReports == {rep \in ReportSet : ~IndexPanics(rep)}

PanicErr(k) == [kind |-> "Panic", key |-> k, cause |-> "no entry found for key"]

\* The text the closure hands to progress.set_status when no lookup panics
ProgressLine(rep) ==
    << <<rep.phase>>,
       FormatSize(rep.mem_probe_size),
       FormatSizeDashed(rep.usages[ROOT_SLICE].io_rbps),
       FormatSizeDashed(rep.usages[ROOT_SLICE].io_wbps),
       FormatDurationDashed(rep.iolat.map["read"]["50"]),
       FormatDurationDashed(rep.iolat.map["read"]["90"]),
       FormatDurationDashed(rep.iolat.map["read"]["99"]) >>

\* HashdSeqCond met by any completed benchmark, whatever was requested.
HashdSeqCondAnyCompleted(c, b) == b.hashd_seq > 0

\* HashdSeqCond with > for >=.
HashdSeqCondStrict(c, b) == b.hashd_seq > c.seq

\* bench.hashd_seq >= cmd.bench_hashd_seq
HashdSeqCond(c, b) == b.hashd_seq >= c.seq

\* What wait_cond returns
WaitOk == [ok |-> TRUE, err |-> NoErr]
WaitErr(s) ==
    [ ok |-> FALSE,
      err |-> [ kind |-> IF s = "cancel" THEN "Cancelled"
                         ELSE IF s = "timeout" THEN "Timeout"
                         ELSE "DelegatedFailure",
                key |-> "", cause |-> s ] ]

\* TimeoutArg as a timeout of thirty seconds.
TimeoutArgSome == <<"Duration::from_secs(30)">>

\* The timeout run hands to wait_cond: None
TimeoutArg == None

\* ClosureRenders with a return that precedes set_status when the condition
\* holds.
ClosureRendersUnlessDone(done) == ~done

\* Whether the closure sets the progress line in a call whose condition
\* evaluates to done: set_status precedes the condition and is not guarded.
ClosureRenders(done) == TRUE

\* AfterWait without the `?`: the error is dropped and run goes on.
AfterWaitIgnoresErr(r) == "read"

\* AfterWait taking a cancellation for a completed wait.
AfterWaitCancelIsOk(r) ==
    IF r.ok \/ r.err.kind = "Cancelled" THEN "read" ELSE "failed"

\* AfterWait starting the benchmark again when the wait failed.
AfterWaitRetries(r) == IF r.ok THEN "read" ELSE "ready"

\* rctx.wait_cond(..)?: an Err leaves run at once, an Ok goes on to the read
AfterWait(r) == IF r.ok THEN "read" ELSE "failed"

\* rctx.access_agent_files(|af| af.bench.data.hashd.clone())
ReadKnobs(b) == b.hashd

\* ToValue writing the request rate as a number that lost its value.
ToValueLosesRate(k) == [object |-> [k EXCEPT !.rps_max = <<"0">>]]

\* serde_json::to_value(&result): an object with the fields of the knobs
ToValue(k) == [object |-> k]

\* ----------------------------------------------------------------- actions
\* HashdParamsBench::parse
Parse ==
    /\ pc = "parse"
    /\ LET r == ParseProps(props)
       IN /\ pc' = IF r.ok THEN "ready" ELSE "failed"
          /\ job' = r.job
          /\ err' = r.err
    /\ UNCHANGED <<props, reports, effects, cmd, bench, sig, pollLog, status, renders,
                   lastRep, startSeq, result, results>>

\* run, from its entry to the call of wait_cond
RunStart ==
    /\ pc = "ready"
    /\ effects' = RunCalls(job)
    /\ cmd' = IssueStart(StartReq(job), bench)
    /\ startSeq' = bench.hashd_seq
    /\ pc' = AfterStart(job)
    /\ UNCHANGED <<props, reports, job, err, bench, sig, pollLog, status, renders,
                   lastRep, result, results>>

\* One poll of wait_cond: the closure reads the files, builds the progress
\* line, sets it and decides. A lookup in the report that finds no entry
\* panics while the line is built: nothing is set and nothing is compared.
Poll ==
    /\ pc = "waiting"
    /\ sig = "none"
    /\ Len(pollLog) < MaxPolls
    /\ \E rep \in reports :
           /\ lastRep' = rep
           /\ IF IndexPanics(rep)
              THEN /\ pc' = "panicked"
                   /\ err' = PanicErr(MissingKey(rep))
                   /\ UNCHANGED <<status, renders, pollLog>>
              ELSE /\ IF ClosureRenders(HashdSeqCond(cmd, bench))
                      THEN status' = ProgressLine(rep) /\ renders' = renders + 1
                      ELSE UNCHANGED <<status, renders>>
                   /\ pollLog' = Append(pollLog, [cmd_seq |-> cmd.seq,
                                                  bench_seq |-> bench.hashd_seq])
                   /\ pc' = IF HashdSeqCond(cmd, bench) THEN AfterWait(WaitOk)
                                                        ELSE "waiting"
                   /\ err' = err
    /\ UNCHANGED <<props, reports, job, effects, cmd, bench, sig, startSeq, result,
                   results>>

\* wait_cond observes a cancellation, the failure of the benchmark unit or,
\* when it was given a timeout, its expiry, and returns an error.
WaitAbort ==
    /\ pc = "waiting"
    /\ sig # "none" \/ TimeoutArg # None
    /\ LET r == WaitErr(IF sig # "none" THEN sig ELSE "timeout")
       IN /\ pc' = AfterWait(r)
          /\ err' = IF pc' = "failed" THEN r.err ELSE err
    /\ UNCHANGED <<props, reports, job, effects, cmd, bench, sig, pollLog, status,
                   renders, lastRep, startSeq, result, results>>

\* run, after wait_cond: read the knobs and return them
ReadResult ==
    /\ pc = "read"
    /\ result' = ToValue(ReadKnobs(bench))
    /\ results' = Append(results, [fake |-> job.fake_cpu_load,
                                   value |-> result',
                                   report |-> bench.hashd,
                                   polls |-> Len(pollLog)])
    /\ pc' = "done"
    /\ UNCHANGED <<props, reports, job, err, effects, cmd, bench, sig, pollLog, status,
                   renders, lastRep, startSeq>>

\* run is called again on the same job.
RunAgain ==
    /\ pc = "done"
    /\ Len(results) < MaxRuns
    /\ pc' = "ready"
    /\ effects' = <<>>
    /\ pollLog' = <<>>
    /\ status' = NoStatus
    /\ renders' = 0
    /\ lastRep' = NoRep
    /\ result' = NoResult
    /\ UNCHANGED <<props, reports, job, err, cmd, bench, sig, startSeq, results>>

\* The agent finishes the requested benchmark and saves its bench file.
AgentComplete ==
    /\ pc = "waiting"
    /\ bench.hashd_seq < cmd.seq
    /\ \E k \in KnobSet :
           bench' = [hashd_seq |-> cmd.seq, hashd |-> k]
    /\ UNCHANGED <<props, reports, pc, job, err, effects, cmd, sig, pollLog, status,
                   renders, lastRep, startSeq, result, results>>

\* A cancellation arrives while run waits.
SignalCancel ==
    /\ pc = "waiting"
    /\ sig = "none"
    /\ sig' = "cancel"
    /\ UNCHANGED <<props, reports, pc, job, err, effects, cmd, bench, pollLog, status,
                   renders, lastRep, startSeq, result, results>>

\* The benchmark unit fails while run waits.
SignalFailure ==
    /\ pc = "waiting"
    /\ sig = "none"
    /\ sig' = "failure"
    /\ UNCHANGED <<props, reports, pc, job, err, effects, cmd, bench, pollLog, status,
                   renders, lastRep, startSeq, result, results>>

\* ----------------------------------------------------------- specifications
Idle ==
    /\ pc = "parse"
    /\ job = NoJob
    /\ err = NoErr
    /\ effects = <<>>
    /\ sig = "none"
    /\ pollLog = <<>>
    /\ status = NoStatus
    /\ renders = 0
    /\ lastRep = NoRep
    /\ startSeq = 0
    /\ result = NoResult
    /\ results = <<>>

\* The property maps run is exercised with.
RunTexts(k) ==
    IF k = "passive" THEN {S_empty}
    ELSE IF k = "fake-cpu-load" THEN {S_empty}
    ELSE IF k = "hash-size" THEN {<<"1", "2", "3", "4", "5">>}
    ELSE IF k = "chunk-pages" THEN {<<"+", "1", "6">>}
    ELSE {<<"5", "0", "0", "0">>}

RunKeys == {"passive", "fake-cpu-load", "hash-size", "chunk-pages", "rps-max"}

RunMaps ==
    UNION { {m \in [D -> UNION {RunTexts(k) : k \in D}] :
                \A k \in D : m[k] \in RunTexts(k)} : D \in SUBSET RunKeys }

Init ==
    /\ Idle
    /\ reports = ReportSet
    /\ props \in RunMaps
    /\ bench \in [hashd_seq : 0..MaxInitSeq, hashd : KnobSet]
    /\ cmd \in {[seq |-> s, req |-> NoReq] : s \in {0, bench.hashd_seq}}

Next ==
    \/ Parse
    \/ RunStart
    \/ Poll
    \/ WaitAbort
    \/ ReadResult
    \/ RunAgain
    \/ AgentComplete
    \/ SignalCancel
    \/ SignalFailure

Spec == Init /\ [][Next]_vars

\* parse alone, over every property map of at most MaxProps entries
ParseInit ==
    /\ Idle
    /\ reports = CompleteReports
    /\ props \in PropMaps(MaxProps)
    /\ bench = [hashd_seq |-> 0, hashd |-> KnobsA]
    /\ cmd = [seq |-> 0, req |-> NoReq]

ParseNext == Parse

ParseSpec == ParseInit /\ [][ParseNext]_vars

\* one call of run under fair scheduling of the thread that runs it: parse,
\* the start, every poll of wait_cond, its abort and the final read are steps
\* of that thread and are taken when they stay possible; the agent and the
\* signals owe nothing
LiveMaps == {m \in RunMaps : DOMAIN m \subseteq {"fake-cpu-load"}}

LiveInit ==
    /\ Idle
    /\ reports = CompleteReports
    /\ props \in LiveMaps
    /\ bench \in [hashd_seq : 0..MaxInitSeq, hashd : KnobSet]
    /\ cmd = [seq |-> bench.hashd_seq, req |-> NoReq]

LiveNext ==
    \/ Parse
    \/ RunStart
    \/ Poll
    \/ WaitAbort
    \/ ReadResult
    \/ AgentComplete
    \/ SignalCancel
    \/ SignalFailure

RunThreadFair ==
    /\ WF_vars(Parse)
    /\ WF_vars(RunStart)
    /\ WF_vars(Poll)
    /\ WF_vars(WaitAbort)
    /\ WF_vars(ReadResult)

LiveSpec == LiveInit /\ [][LiveNext]_vars /\ RunThreadFair

\* parse and the start of run, over property maps that give any of the
\* sizes, rates and overrides
StartTexts(k) ==
    IF k = "fake-cpu-load" THEN {S_empty}
    ELSE IF k = "balloon" THEN {<<"0", "0", "7">>}
    ELSE IF k = "log-bps" THEN {<<"7">>}
    ELSE IF k = "hash-size" THEN {<<"1", "2", "3", "4", "5">>}
    ELSE IF k = "chunk-pages" THEN {<<"+", "1", "6">>}
    ELSE {<<"5", "0", "0", "0">>, U32MaxDigits}

StartKeys == {"fake-cpu-load", "balloon", "log-bps", "hash-size", "chunk-pages",
              "rps-max"}

StartMaps ==
    UNION { {m \in [D -> UNION {StartTexts(k) : k \in D}] :
                \A k \in D : m[k] \in StartTexts(k)} : D \in SUBSET StartKeys }

StartInit ==
    /\ Idle
    /\ reports = CompleteReports
    /\ props \in StartMaps
    /\ bench \in [hashd_seq : 0..MaxInitSeq, hashd : {KnobsA}]
    /\ cmd = [seq |-> bench.hashd_seq, req |-> NoReq]

StartNext ==
    \/ Parse
    \/ RunStart

StartSpec == StartInit /\ [][StartNext]_vars

\* ------------------------------------------------------------------ claims
HasJob == job # NoJob

\* The rendezvous as a poll's snapshot shows it.
Rendezvous(snap) == snap.bench_seq >= snap.cmd_seq

LastPollMet == Len(pollLog) > 0 /\ Rendezvous(pollLog[Len(pollLog)])

C2_ReadOnlyAfterRendezvous ==
    (result # NoResult) => \E i \in 1..Len(pollLog) : Rendezvous(pollLog[i])

\* Witness of C2: a result has been read.
C2_Witness ==
    /\ pc = "done"
    /\ result # NoResult
    /\ Len(pollLog) >= 2

\* C3: once a cancellation has arrived during the wait, run holds no result,
\* is still in the wait or has returned, and what it returned is Cancelled.
C3_CancelledNeverReads ==
    (sig = "cancel") =>
        /\ result = NoResult
        /\ pc \in {"waiting", "failed"}
        /\ (pc = "failed" => err.kind = "Cancelled")

\* Witness of C3: the cancellation arrived after a poll and before the next
\* one, and run returned Cancelled.
C3_Witness ==
    /\ sig = "cancel"
    /\ pc = "failed"
    /\ err.kind = "Cancelled"
    /\ Len(pollLog) \in 1..(MaxPolls - 1)
    /\ result = NoResult

\* C4: once the benchmark unit has failed during the wait, no further poll
\* is made, no call is made on the run context, the command file is not
\* written again, no result is read, and the only step run takes is to
\* return that failure as wait_cond gave it.
C4_FailureSurfacedNoRetry ==
    [][ (sig = "failure") =>
            /\ pollLog' = pollLog
            /\ effects' = effects
            /\ cmd' = cmd
            /\ result' = NoResult
            /\ results' = results
            /\ (pc' # pc =>
                    /\ pc = "waiting"
                    /\ pc' = "failed"
                    /\ err' = WaitErr("failure").err) ]_vars

\* Witness of C4: the unit failed during the wait and run returned the
\* failure, having issued the start once.
C4_Witness ==
    /\ sig = "failure"
    /\ pc = "failed"
    /\ err.kind = "DelegatedFailure"
    /\ Len(pollLog) >= 1
    /\ Cardinality({i \in 1..Len(effects) : effects[i] = "start_hashd_bench"}) = 1

\* The keys parse matches, and for each the texts of its declared type,
\* listed by hand among the texts the model draws.
Recognized == {"passive", "balloon", "log-bps", "fake-cpu-load", "hash-size",
               "chunk-pages", "rps-max"}

BoolKeys == {"passive", "fake-cpu-load"}

GoodTexts(k) ==
    IF k \in BoolKeys THEN {S_empty, S_true, S_false}
    ELSE {<<"7">>, <<"+", "7">>, <<"0", "0", "7">>, U32MaxDigits}
             \cup (IF k = "rps-max" THEN {}
                   ELSE {<<"4", "2", "9", "4", "9", "6", "7", "2", "9", "6">>})

UnknownKeys(m) == DOMAIN m \ Recognized

MalformedKeys(m) == {k \in DOMAIN m \cap Recognized : m[k] \notin GoodTexts(k)}

Pos(k) == CHOOSE i \in 1..Len(KeyOrder) : KeyOrder[i] = k

FirstKey(S) == CHOOSE k \in S : \A k2 \in S : Pos(k) <= Pos(k2)

Parsed == pc # "parse"

ParseErrKinds == {"ParseIntError", "ParseBoolError"}

\* C5 as claimed: a map with a key outside the recognized set always fails
\* with UnknownProperty naming such a key and yields no job, whatever its
\* other entries are.
C5_Original ==
    (Parsed /\ UnknownKeys(props) # {}) =>
        /\ pc = "failed"
        /\ job = NoJob
        /\ err.kind = "UnknownProperty"
        /\ err.key \in UnknownKeys(props)

\* C5 as amended: a map with a key outside the recognized set always fails
\* and yields no job; the error is UnknownProperty naming the first such key
\* in iteration order, unless a recognized key iterated before it has a
\* value that does not parse, and then it is that value's parse error.
C5_UnknownKeyRejected ==
    (Parsed /\ UnknownKeys(props) # {}) =>
        LET u == FirstKey(UnknownKeys(props))
            earlier == {k \in MalformedKeys(props) : Pos(k) < Pos(u)}
        IN /\ pc = "failed"
           /\ job = NoJob
           /\ IF earlier = {} THEN err = UnknownKeyErr(u)
              ELSE err.kind \in ParseErrKinds

\* Witness of C5: an unknown key is reported although a later entry has a
\* value that does not parse.
C5_Witness ==
    /\ pc = "failed"
    /\ err.kind = "UnknownProperty"
    /\ err.key \in UnknownKeys(props)
    /\ MalformedKeys(props) # {}

\* C6 as claimed: a map in which a recognized key has a value that does not
\* parse fails with an error that carries the key and the parse error, and
\* yields no job.
C6_Original ==
    (Parsed /\ MalformedKeys(props) # {}) =>
        /\ pc = "failed"
        /\ job = NoJob
        /\ err.kind \in ParseErrKinds
        /\ err.cause # ""
        /\ err.key \in MalformedKeys(props)

\* C7: for passive and fake-cpu-load, an empty value or "true" sets the flag
\* and "false" clears it whenever parse returns a job, and parse does return
\* a job when every other entry is a recognized key with a value of its type.
FlagField(k) == IF k = "passive" THEN "passive" ELSE "fake_cpu_load"

C7_EmptyFlagIsTrue ==
    Parsed =>
        \A k \in BoolKeys \cap DOMAIN props :
            /\ (pc = "ready" =>
                    /\ props[k] \in {S_empty, S_true, S_false}
                    /\ job[FlagField(k)] = (props[k] # S_false))
            /\ ( /\ props[k] \in {S_empty, S_true, S_false}
                 /\ UnknownKeys(props) = {}
                 /\ MalformedKeys(props) = {} ) => pc = "ready"

\* Witness of C7: passive given with an empty value, and the job has it set.
C7_Witness ==
    /\ pc = "ready"
    /\ "passive" \in DOMAIN props
    /\ props["passive"] = S_empty
    /\ job.passive = TRUE

\* The calls on the run context that act on the host or start a process
\* other than the fake-CPU estimation itself.
HostSideCalls == {"set_passive_keep_crit_mem_prot", "set_commit_bench",
                  "start_agent", "start_hashd_bench"}

FakeRun == HasJob /\ job.fake_cpu_load

\* C8 as claimed: with fake-cpu-load set, run makes none of the calls that
\* relax memory protection, commit the benchmark baseline, start the agent
\* or start the external benchmark.
C8_Original ==
    FakeRun => \A i \in 1..Len(effects) : effects[i] \notin HostSideCalls

\* C9 as claimed: with fake-cpu-load set, run never enters the wait loop and
\* never reads the agent's command, bench or report files.
C9_Original ==
    FakeRun => /\ pc # "waiting"
               /\ pollLog = <<>>
               /\ renders = 0

FakeResults == {i \in 1..Len(results) : results[i].fake}

\* C10 as claimed: any two runs with fake-cpu-load set on the same job
\* return the same value, whatever the agent's files hold.
C10_Original ==
    \A i, k \in FakeResults : results[i].value = results[k].value

\* The number a well-formed text of the model stands for, listed by hand.
CanonOf(text) ==
    IF text \in {<<"+", "7">>, <<"0", "0", "7">>} THEN <<"7">>
    ELSE IF text = <<"+", "1", "6">> THEN <<"1", "6">>
    ELSE text

\* The override the property map gives for key k, or d when it gives none.
PropOr(k, d) == IF k \in DOMAIN props THEN CanonOf(props[k]) ELSE d

\* C11 as claimed: the value a run with fake-cpu-load set returns has
\* hash_size equal to the hash-size override or else the default profile's
\* mean file size, chunk_pages equal to the chunk-pages override or else the
\* default profile's chunk pages, and rps_max equal to the rps-max override
\* or else the fixed fallback ceiling.
C11_Original ==
    \A i \in FakeResults :
        LET o == results[i].value.object
        IN /\ o.hash_size = PropOr("hash-size", DflFileSizeMean)
           /\ o.chunk_pages = PropOr("chunk-pages", DflChunkPages)
           /\ o.rps_max = PropOr("rps-max", BenchFakeCpuRpsMax)

DelegatedResults == {i \in 1..Len(results) : ~results[i].fake}

\* C12: the value a delegated run returns has, field for field, the knobs
\* the bench file held when run read it; with rps-max given as 5000 and a
\* bench file whose rps_max is 5000 the returned rps_max is 5000.
C12_DelegatedResultIsReport ==
    \A i \in DelegatedResults :
        LET o == results[i].value.object
            r == results[i].report
        IN /\ o.hash_size = r.hash_size
           /\ o.rps_max = r.rps_max
           /\ o.mem_size = r.mem_size
           /\ o.mem_frac = r.mem_frac
           /\ o.chunk_pages = r.chunk_pages
           /\ ( /\ "rps-max" \in DOMAIN props
                /\ props["rps-max"] = <<"5", "0", "0", "0">>
                /\ r.rps_max = <<"5", "0", "0", "0">> )
                  => o.rps_max = <<"5", "0", "0", "0">>

\* Witness of C12: a delegated run with rps-max 5000 returned rps_max 5000
\* from a bench file holding it.
C12_Witness ==
    /\ Len(results) >= 1
    /\ ~results[1].fake
    /\ "rps-max" \in DOMAIN props
    /\ results[1].report.rps_max = <<"5", "0", "0", "0">>
    /\ results[1].value.object.rps_max = <<"5", "0", "0", "0">>

\* The argument the start request has for key k when the map gives it.
OptArg(name, k) ==
    IF k \in DOMAIN props THEN << <<name>> \o CanonOf(props[k]) >> ELSE <<>>

\* C13: the start request of a delegated run carries the configured balloon
\* size and log rate, and its extra arguments are --bench-hash-size=N,
\* --bench-chunk-pages=N and --bench-rps-max=N, each present exactly when its
\* key was given, with the value given, in that order, and nothing else.
C13_StartRequest ==
    (pc = "waiting" /\ ~job.fake_cpu_load) =>
        /\ DOMAIN cmd.req = {"kind", "balloon_size", "log_bps", "extra_args"}
        /\ cmd.req.kind = "start_hashd_bench"
        /\ cmd.req.balloon_size = PropOr("balloon", DflBalloonSize)
        /\ cmd.req.log_bps = PropOr("log-bps", DflLogBps)
        /\ cmd.req.extra_args =
               OptArg("--bench-hash-size=", "hash-size")
                   \o OptArg("--bench-chunk-pages=", "chunk-pages")
                   \o OptArg("--bench-rps-max=", "rps-max")

\* Witness of C13: a delegated start with a balloon size and all three
\* overrides given.
C13_Witness ==
    /\ pc = "waiting"
    /\ ~job.fake_cpu_load
    /\ "balloon" \in DOMAIN props
    /\ Len(cmd.req.extra_args) = 3
    /\ cmd.req.extra_args[2] = <<"--bench-chunk-pages=", "1", "6">>

\* The positions of effects at which operation op was issued.
Issued(op) == {i \in 1..Len(effects) : effects[i] = op}

\* The operations run issues on its context.
RunOps == {"set_passive_keep_crit_mem_prot", "set_commit_bench", "start_agent",
           "start_hashd_bench", "HashdFakeCpuBench"}

\* C14: a run requests the relaxation of memory protection exactly when
\* passive is set and then once only, before the commit of the baseline, the
\* start of the agent and the start request; run issues no operation other
\* than these, so none undoes the relaxation.
C14_RelaxFirstIffPassive ==
    (HasJob /\ effects # <<>>) =>
        /\ Cardinality(Issued("set_passive_keep_crit_mem_prot"))
               = (IF job.passive THEN 1 ELSE 0)
        /\ \A i \in Issued("set_passive_keep_crit_mem_prot") :
               \A op \in RunOps \ {"set_passive_keep_crit_mem_prot"} :
                   \A k \in Issued(op) : i < k
        /\ Issued("set_commit_bench") # {}
        /\ Issued("start_agent") # {}
        /\ Issued("start_hashd_bench") \cup Issued("HashdFakeCpuBench") # {}
        /\ \A i \in 1..Len(effects) : effects[i] \in RunOps

\* Witness of C14: a passive delegated run has returned its result after
\* relaxing first, and a run that is not passive has issued its calls.
C14_Witness ==
    /\ pc = "done"
    /\ job.passive
    /\ ~job.fake_cpu_load
    /\ effects[1] = "set_passive_keep_crit_mem_prot"
    /\ effects[Len(effects)] = "start_hashd_bench"

\* Reading i of a report, in the order the progress line shows the readings
\* from its third field on, is absent: its entry is missing or it is zero.
ReadingAbsent(rep, i) ==
    IF i <= 2
    THEN \/ ROOT_SLICE \notin DOMAIN rep.usages
         \/ (IF i = 1 THEN rep.usages[ROOT_SLICE].io_rbps
                      ELSE rep.usages[ROOT_SLICE].io_wbps) = Zero
    ELSE \/ "read" \notin DOMAIN rep.iolat.map
         \/ Pcts[i - 2] \notin DOMAIN rep.iolat.map["read"]
         \/ rep.iolat.map["read"][Pcts[i - 2]] = Zero

\* C15 as claimed: whatever readings the snapshot of a poll tick lacks, the
\* run does not abort on it, and the progress line the tick sets has seven
\* fields of which exactly the absent throughput and latency readings show
\* as a dash.
C15_Original ==
    /\ pc # "panicked"
    /\ lastRep # NoRep =>
           /\ Len(status) = 7
           /\ \A i \in 1..5 :
                  ReadingAbsent(lastRep, i) <=> (status[i + 2] = <<"-">>)

\* A step that is one poll tick of the wait that reached its decision.
PollTick == Len(pollLog') = Len(pollLog) + 1

\* The wait of the current run has terminated successfully.
WaitSucceeded == HasJob /\ pc \in {"read", "done"}

\* C16: the sequence number a run requests is above the completed-sequence
\* counter it found, so a poll that still reads the counter an earlier run
\* left does not end the wait; the wait succeeds only on a poll that reads
\* the completion of the requested sequence number.
C16_StaleCompletionIgnored ==
    /\ (HasJob /\ pc \in {"waiting", "read", "done"}) => cmd.seq > startSeq
    /\ \A i \in 1..Len(pollLog) :
           pollLog[i].bench_seq <= startSeq =>
               (i < Len(pollLog) \/ pc \notin {"read", "done"})
    /\ WaitSucceeded =>
           /\ pollLog # <<>>
           /\ pollLog[Len(pollLog)].cmd_seq = startSeq + 1
           /\ pollLog[Len(pollLog)].bench_seq >= startSeq + 1

\* Witness of C16: the second run of the process polled while the counter
\* still showed the first run's completion, went on waiting, and finished on
\* a later poll.
C16_Witness ==
    /\ pc = "done"
    /\ Len(results) = 2
    /\ startSeq >= 1
    /\ Len(pollLog) >= 2
    /\ pollLog[1].bench_seq = startSeq
    /\ pollLog[Len(pollLog)].bench_seq > startSeq

\* The completion of the requested sequence number is in the bench file.
Reported == HashdSeqCond(cmd, bench)

ChosenStart == IF job.fake_cpu_load THEN "HashdFakeCpuBench" ELSE "start_hashd_bench"

\* The other start operation.
OtherStart == IF job.fake_cpu_load THEN "start_hashd_bench" ELSE "HashdFakeCpuBench"

\* C19: a run that has got past its start has issued one start operation and
\* only one, the fake-CPU estimation when fake_cpu_load is set and the
\* benchmark start request when it is not, as the last of its calls and
\* before any poll; while the run waits, its calls and the request it issued
\* stay as they are.
C19_ExactlyOneStart ==
    /\ []((HasJob /\ pc \in {"waiting", "read", "done"}) =>
            /\ Cardinality(Issued(ChosenStart)) = 1
            /\ Issued(OtherStart) = {}
            /\ effects[Len(effects)] = ChosenStart
            /\ cmd.req.kind = ChosenStart)
    /\ []((HasJob /\ pc = "ready") => (effects = <<>> /\ pollLog = <<>>))
    /\ [][pc = "waiting" => (effects' = effects /\ cmd' = cmd)]_vars

\* Witness of C19: a passive fake-CPU run finished after two polls or more
\* having issued the fake-CPU estimation once, as its last call, and no
\* benchmark start request.
C19_Witness ==
    /\ pc = "done"
    /\ job.fake_cpu_load
    /\ job.passive
    /\ Len(pollLog) >= 2
    /\ Issued("HashdFakeCpuBench") = {Len(effects)}
    /\ Issued("start_hashd_bench") = {}

\* The flag the property map gives for key k, or FALSE when it gives none.
FlagOr(k) == IF k \in DOMAIN props THEN props[k] # S_false ELSE FALSE

\* Every order in which the keys of set S can be listed.
Orders(S) ==
    {f \in [1..Cardinality(S) -> S] : \A a, b \in DOMAIN f : f[a] = f[b] => a = b}

\* Every key of the map is recognized and has a value of its type.
WellFormed == UnknownKeys(props) = {} /\ MalformedKeys(props) = {}

\* C20: for a map of recognized keys with well-formed values parse returns a
\* job in which each field is the value of its own key when the key is
\* present and the default when it is absent: passive and fake_cpu_load
\* false, balloon_size and log_bps from the default command, hash_size,
\* chunk_pages and rps_max None; and folding the entries in any other order
\* gives the same job.
C20_OnlyGivenKeysChange ==
    (Parsed /\ WellFormed) =>
        /\ pc = "ready"
        /\ DOMAIN job = DOMAIN DefaultJob
        /\ job.passive = FlagOr("passive")
        /\ job.fake_cpu_load = FlagOr("fake-cpu-load")
        /\ job.balloon_size = PropOr("balloon", DflBalloonSize)
        /\ job.log_bps = PropOr("log-bps", DflLogBps)
        /\ job.hash_size = PropOr("hash-size", None)
        /\ job.chunk_pages = PropOr("chunk-pages", None)
        /\ job.rps_max = PropOr("rps-max", None)
        /\ \A o \in Orders(DOMAIN props) :
               ParseLoop(props, o, DefaultJob) = Assigned(job)

\* Witness of C20: a map giving log-bps as "007" and passive as "false" was
\* parsed: log_bps is 7, passive is false and every other field is as in the
\* default job.
C20_Witness ==
    /\ pc = "ready"
    /\ DOMAIN props = {"log-bps", "passive"}
    /\ props["log-bps"] = <<"0", "0", "7">>
    /\ props["passive"] = S_false
    /\ job = [DefaultJob EXCEPT !.log_bps = <<"7">>]

====
